---- MODULE Spec2Model ----
(***************************************************************************)
(* Persistent store subsystem of the academic dashboard:                   *)
(*   - useLocalStorage (src/src/hooks/use-local-storage.ts): one store     *)
(*     instance on the file backend, its initial load, setValue, the       *)
(*     debounced persist and the storage.write calls it issues;            *)
(*   - useStore (src/unnamed/part_008): the collection CRUD layer;         *)
(*   - the host process storage handlers (src/electron/main.ts).           *)
(* Time is in milliseconds.  A timestamp string (Date#toISOString) is      *)
(* represented by the millisecond instant it denotes.                      *)
(***************************************************************************)
EXTENDS Integers, Sequences, FiniteSets, TLC

(* ------------------------------ bounds -------------------------------- *)
MaxCalls == 3
MaxWrites == 2
MaxReads == 2
MaxCrashes == 1
MaxTime == 200
TickMs == 50
MaxRestarts == 1

(* ------------------------- program constants -------------------------- *)
DebounceDelay == 100

Collections ==
  {"papers", "courses", "grants", "peerReviews", "editorialRoles", "students",
   "conferences", "serviceRoles", "linkedFolders", "todos"}

DEFAULT_DATA == [c \in Collections |-> <<>>]

(* What a missing property reads as. *)
Undefined == [undefined |-> TRUE]
(* What storage.read resolves with when data.json does not exist: null. *)
Absent == [absent |-> TRUE]
(* storage.read rejected: readJSON threw (EACCES, EIO, a text JSON.parse rejects) *)
ReadError == [error |-> TRUE]
EmptyId == ""
(* uuidv4(): the n-th uuid it hands out; no two calls return the same string *)
uuidv4(n) == <<"u1", "u2", "u3", "u4", "u5", "u6">>[n]

(* ------------------------------ inputs -------------------------------- *)
OpCollections == {"papers", "todos"}
Texts == {"a"}
Ids == {uuidv4(1), uuidv4(2)}
Partials ==
  [text : {"b"}] \cup [id : {uuidv4(1), EmptyId}] \cup [createdAt : {0}]

Without(d, c) == [k \in (DOMAIN d) \ {c} |-> d[k]]

(* Documents data.json may hold at start-up: the current schema, and older   *)
(* schemas that predate a collection.                                        *)
StoredDocuments ==
  { DEFAULT_DATA,
    Without(DEFAULT_DATA, "todos"),
    Without(DEFAULT_DATA, "papers") }

VARIABLES
  now,          \* wall clock, ms
  storedValue,  \* useState: [doc, lin]; lin = the set calls applied to it, in order
  isHydrated,
  loadPc,       \* "reading" | "replied" | "done": the load() coroutine
  loadResult,   \* what storage.read resolved with, once replied
  timers,       \* pending timeouts: [h, deadline, data]
  debounceRef,  \* debounceRef.current: the handle of the last timeout, 0 = null
  issued,       \* the storage.write calls made so far, in order: their data
  inflight,     \* indices into issued: write requests the host has not finished
  disk,         \* data.json: Absent or a value
  nextId,       \* uuidv4: number of uuids handed out
  calls,        \* set calls whose updater returned: <<[id, at]>> in call order
  nCalls,       \* set calls made
  lastCall,     \* the last set call: [op, c, id, threw, updates]
  renderError,  \* an updater threw: the tree is unmounted
  warned,       \* console.warn calls made
  unhandled,    \* rejected promises no handler was attached to
  gen,          \* store instances created before this one (restarts)
  saved         \* the in-memory value the first instance ended with

storeVars ==
  <<now, storedValue, isHydrated, loadPc, loadResult, timers, debounceRef, issued,
    inflight, disk, nextId, calls, nCalls, lastCall, renderError, warned, unhandled,
    gen, saved>>

(* The host process and the files of the data key, step by step. *)
VARIABLES
  inodes,       \* file contents by inode: [st |-> "partial" | "complete", data]
  destIno,      \* the inode data.json names, 0 when the path does not exist
  tmpIno,       \* the inode data.json.tmp.<pid> names, 0 when the path does not exist
  wreqs,        \* storage:write handlers: request -> [pc, data, fd]
  rreqs,        \* storage:read handlers: request -> [pc, fd, result]
  committed,    \* the documents data.json has held as complete files
  overlapped,   \* two storage:write handlers have been in progress at once
  crashes       \* host process crashes so far

fileVars == <<inodes, destIno, tmpIno, wreqs, rreqs, committed, overlapped, crashes>>

VARIABLES
  startup       \* what this instance started from: [found, loadedAt]; found = a
                \* document existed at construction, loadedAt = the number of set
                \* calls made when load() put a document in memory, -1 before

(* Several useLocalStorage instances, one per storage key, over the host's files. *)
VARIABLES
  kValue,       \* key -> the in-memory value of the instance constructed with it
  kTimer,       \* key -> the document its pending timeout will write, or NoTimer
  kFiles,       \* path -> the file: [text, by], by = the key it was written under;
                \* or Absent
  kWritten,     \* key -> the document of the last write completed under it, or Absent
  kCalls,       \* set calls made
  kLast         \* the last step taken: [op, key]

keyVars == <<kValue, kTimer, kFiles, kWritten, kCalls, kLast>>

(* useLocalStorage with no privileged bridge: window.localStorage. *)
VARIABLES
  bValue,       \* useState: the in-memory value
  bStore,       \* localStorage[key]: a text, or Absent
  bHydrated,
  bCalls,       \* set calls made
  bLast,        \* the last step: [op, ok]; ok = setItem returned
  bWarned       \* console.warn calls made

browserVars == <<bValue, bStore, bHydrated, bCalls, bLast, bWarned>>

(* useIdleDetection. *)
VARIABLES
  isIdle,
  idleTimers,   \* pending timeouts: [h, deadline]
  timerRef,     \* timerRef.current, 0 for null
  timeoutMs,
  idleMounted,
  lastActivity, \* when resetTimer last ran
  idleSetAt     \* when a timeout last ran setIsIdle(true), -1 if none did

idleVars == <<isIdle, idleTimers, timerRef, timeoutMs, idleMounted, lastActivity, idleSetAt>>

(* the parts of the program the store and the host's data file do not touch *)
envVars == <<keyVars, browserVars, idleVars>>

vars == <<storeVars, fileVars, startup, envVars>>

(* ------------------------- useStore (part_008) ------------------------ *)

Has(doc, c) == c \in DOMAIN doc

(* data[c] ?? [] *)
OrEmpty(doc, c) == IF Has(doc, c) THEN doc[c] ELSE <<>>

(* { ...a, ...b } *)
Merge(a, b) ==
  [k \in (DOMAIN a) \cup (DOMAIN b) |-> IF k \in DOMAIN b THEN b[k] ELSE a[k]]

(* { ...prev, [collection]: list } *)
Put(doc, c, list) ==
  [k \in (DOMAIN doc) \cup {c} |-> IF k = c THEN list ELSE doc[k]]

safeData(data) ==
  Merge(data, [linkedFolders |-> OrEmpty(data, "linkedFolders"),
               todos |-> OrEmpty(data, "todos")])

(* the list a collection surface exposes: safeData[c] *)
List(data, c) ==
  IF Has(safeData(data), c) THEN [list |-> safeData(data)[c]] ELSE Undefined

(* Spreading, mapping or filtering prev[collection] = undefined raises a TypeError. *)
Throws(prev, c) == ~Has(prev, c)

addItemUpdater(prev, c, item, uuid, t) ==
  Put(prev, c, Append(prev[c], Merge(item, [id |-> uuid, createdAt |-> t])))

(* map(item => item.id === id ? updates : item): the record replaced, not merged *)
updateItemUpdaterReplaces(prev, c, id, updates) ==
  Put(prev, c,
      [i \in 1..Len(prev[c]) |-> IF prev[c][i].id = id THEN updates ELSE prev[c][i]])

updateItemUpdater(prev, c, id, updates) ==
  Put(prev, c,
      [i \in 1..Len(prev[c]) |->
         IF prev[c][i].id = id THEN Merge(prev[c][i], updates) ELSE prev[c][i]])

(* filter(item => item.id === id): the test of the filter inverted *)
deleteItemUpdaterKeepsMatch(prev, c, id) ==
  Put(prev, c, SelectSeq(prev[c], LAMBDA item : item.id = id))

deleteItemUpdater(prev, c, id) ==
  Put(prev, c, SelectSeq(prev[c], LAMBDA item : item.id # id))

(* the wrappers: papers stamp updatedAt, the others pass through *)
AddFields(c, fields, t) ==
  IF c = "papers" THEN Merge(fields, [updatedAt |-> t]) ELSE fields

UpdateFields(c, updates, t) ==
  IF c = "papers" THEN Merge(updates, [updatedAt |-> t]) ELSE updates

(* ------------------- useLocalStorage (file backend) ------------------- *)

(* persist without its clearTimeout: the earlier timeout stays pending *)
persistNoClear(ts, ref, data, h, at) ==
  ts \cup {[h |-> h, deadline |-> at + DebounceDelay, data |-> data]}

(* persist whose timeout writes the state of the last render, not its argument *)
persistStale(ts, ref, data, h, at) ==
  {t \in ts : t.h # ref}
    \cup {[h |-> h, deadline |-> at + DebounceDelay, data |-> storedValue]}

(* persist(data) run at time at: clearTimeout(debounceRef.current), then       *)
(* setTimeout(..., 100); the timeouts pending afterwards, h being the new handle *)
persist(ts, ref, data, h, at) ==
  {t \in ts : t.h # ref} \cup {[h |-> h, deadline |-> at + DebounceDelay, data |-> data]}

(* setValue called now as call number n, whose updater ran at time at and *)
(* returned next                                                          *)
SetValue(next, n, at) ==
  LET v == [doc |-> next, lin |-> Append(storedValue.lin, n)]
  IN /\ storedValue' = v
     /\ timers' = persist(timers, debounceRef, v, n, at)
     /\ debounceRef' = n
     /\ calls' = Append(calls, [id |-> n, at |-> now])
     /\ nCalls' = n
     /\ now' = at
     /\ UNCHANGED renderError

(* setValue whose updater threw: nothing is stored or persisted, the render fails *)
SetValueThrows ==
  /\ renderError' = TRUE
  /\ nCalls' = nCalls + 1
  /\ UNCHANGED <<storedValue, timers, debounceRef, calls, now>>

CanCall == ~renderError /\ nCalls < MaxCalls

Called(op, c, id, threw, updates) ==
  [op |-> op, c |-> c, id |-> id, threw |-> threw, updates |-> updates]

NoFields == <<>>

(* <collection>.add(fields) called now: the wrapper reads the clock now, the   *)
(* updater of addItem runs lag ms later and reads the clock again               *)
Add(c, fields, lag) ==
  /\ CanCall
  /\ now + lag <= MaxTime
  /\ IF Throws(storedValue.doc, c)
       THEN SetValueThrows /\ UNCHANGED nextId
       ELSE /\ SetValue(addItemUpdater(storedValue.doc, c, AddFields(c, fields, now),
                                       uuidv4(nextId + 1), now + lag),
                        nCalls + 1, now + lag)
            /\ nextId' = nextId + 1
  /\ lastCall' = Called("add", c, uuidv4(nextId + 1), Throws(storedValue.doc, c), fields)
  /\ UNCHANGED <<isHydrated, loadPc, loadResult, issued, inflight, disk, warned,
                 unhandled, gen, saved>>
  /\ UNCHANGED <<fileVars, startup, envVars>>

Update(c, id, updates) ==
  /\ CanCall
  /\ IF Throws(storedValue.doc, c)
       THEN SetValueThrows
       ELSE SetValue(updateItemUpdater(storedValue.doc, c, id,
                                       UpdateFields(c, updates, now)), nCalls + 1, now)
  /\ lastCall' = Called("update", c, id, Throws(storedValue.doc, c), updates)
  /\ UNCHANGED <<isHydrated, loadPc, loadResult, issued, inflight, disk, nextId,
                 warned, unhandled, gen, saved>>
  /\ UNCHANGED <<fileVars, startup, envVars>>

Delete(c, id) ==
  /\ CanCall
  /\ IF Throws(storedValue.doc, c)
       THEN SetValueThrows
       ELSE SetValue(deleteItemUpdater(storedValue.doc, c, id), nCalls + 1, now)
  /\ lastCall' = Called("delete", c, id, Throws(storedValue.doc, c), NoFields)
  /\ UNCHANGED <<isHydrated, loadPc, loadResult, issued, inflight, disk, nextId,
                 warned, unhandled, gen, saved>>
  /\ UNCHANGED <<fileVars, startup, envVars>>

(* setValue(literal) *)
SetLiteral(doc) ==
  /\ CanCall
  /\ SetValue(doc, nCalls + 1, now)
  /\ lastCall' = Called("set", "", EmptyId, FALSE, NoFields)
  /\ UNCHANGED <<isHydrated, loadPc, loadResult, issued, inflight, disk, nextId,
                 warned, unhandled, gen, saved>>
  /\ UNCHANGED <<fileVars, startup, envVars>>

(* storage:read in the host: readJSON(data.json) *)
HostRead ==
  /\ loadPc = "reading"
  /\ loadPc' = "replied"
  /\ loadResult' = disk
  /\ UNCHANGED <<now, storedValue, isHydrated, timers, debounceRef, issued, inflight,
                 disk, nextId, calls, nCalls, lastCall, renderError, warned, unhandled,
                 gen, saved>>
  /\ UNCHANGED <<fileVars, startup, envVars>>

(* storage:read in the host rejects: readJSON threw something other than ENOENT *)
HostReadFails ==
  /\ loadPc = "reading"
  /\ loadPc' = "replied"
  /\ loadResult' = ReadError
  /\ UNCHANGED <<now, storedValue, isHydrated, timers, debounceRef, issued, inflight,
                 disk, nextId, calls, nCalls, lastCall, renderError, warned, unhandled,
                 gen, saved>>
  /\ UNCHANGED <<fileVars, startup, envVars>>

(* setIsHydrated(true) placed inside the try, after the read *)
LoadResumeHydratesInTry ==
  /\ loadPc = "replied"
  /\ loadPc' = "done"
  /\ storedValue' = IF loadResult \notin {Absent, ReadError} THEN loadResult
                                                              ELSE storedValue
  /\ warned' = IF loadResult = ReadError THEN warned + 1 ELSE warned
  /\ isHydrated' = (loadResult # ReadError)
  /\ UNCHANGED <<now, loadResult, timers, debounceRef, issued, inflight, disk, nextId,
                 calls, nCalls, lastCall, renderError, unhandled, gen, saved>>
  /\ startup' = IF loadResult \notin {Absent, ReadError}
                  THEN [startup EXCEPT !.loadedAt = nCalls] ELSE startup
  /\ UNCHANGED <<fileVars, envVars>>

(* the catch falling back to setStoredValue(initialValue) *)
LoadResumeResetsOnError ==
  /\ loadPc = "replied"
  /\ loadPc' = "done"
  /\ storedValue' = IF loadResult = Absent THEN storedValue
                    ELSE IF loadResult = ReadError THEN [doc |-> DEFAULT_DATA, lin |-> <<>>]
                    ELSE loadResult
  /\ warned' = IF loadResult = ReadError THEN warned + 1 ELSE warned
  /\ isHydrated' = TRUE
  /\ UNCHANGED <<now, loadResult, timers, debounceRef, issued, inflight, disk, nextId,
                 calls, nCalls, lastCall, renderError, unhandled, gen, saved>>
  /\ startup' = IF loadResult \notin {Absent, ReadError}
                  THEN [startup EXCEPT !.loadedAt = nCalls] ELSE startup
  /\ UNCHANGED <<fileVars, envVars>>

(* load() resumes after the await: setStoredValue(result) when the result is *)
(* neither null nor undefined, console.warn in the catch when the read       *)
(* rejected, then setIsHydrated(true)                                        *)
LoadResume ==
  /\ loadPc = "replied"
  /\ loadPc' = "done"
  /\ storedValue' = IF loadResult \notin {Absent, ReadError} THEN loadResult
                                                              ELSE storedValue
  /\ warned' = IF loadResult = ReadError THEN warned + 1 ELSE warned
  /\ isHydrated' = TRUE
  /\ UNCHANGED <<now, loadResult, timers, debounceRef, issued, inflight, disk, nextId,
                 calls, nCalls, lastCall, renderError, unhandled, gen, saved>>
  /\ startup' = IF loadResult \notin {Absent, ReadError}
                  THEN [startup EXCEPT !.loadedAt = nCalls] ELSE startup
  /\ UNCHANGED <<fileVars, envVars>>

(* Timeouts run in the order of their deadlines, ties in the order of creation. *)
Due(t) ==
  /\ t \in timers
  /\ now >= t.deadline
  /\ \A u \in timers : u.deadline > t.deadline \/ (u.deadline = t.deadline /\ u.h >= t.h)

(* a timeout expires: window.electronAPI.storage.write(fileKey, data) *)
TimerFire(t) ==
  /\ Due(t)
  /\ timers' = timers \ {t}
  /\ issued' = Append(issued, t.data)
  /\ inflight' = inflight \cup {Len(issued) + 1}
  /\ UNCHANGED <<now, storedValue, isHydrated, loadPc, loadResult, debounceRef, disk,
                 nextId, calls, nCalls, lastCall, renderError, warned, unhandled, gen,
                 saved>>
  /\ UNCHANGED <<fileVars, startup, envVars>>

(* writeJSON resolving without the rename: data.json keeps what it held *)
HostWriteNoRename(w) ==
  /\ w \in inflight
  /\ inflight' = inflight \ {w}
  /\ UNCHANGED <<now, storedValue, isHydrated, loadPc, loadResult, timers, debounceRef,
                 issued, disk, nextId, calls, nCalls, lastCall, renderError, warned,
                 unhandled, gen, saved>>
  /\ UNCHANGED <<fileVars, startup, envVars>>

(* storage:write in the host, taken at its commit point, the rename of writeJSON; *)
(* its steps are those of HostWriteOpen .. HostWriteRename below                 *)
HostWrite(w) ==
  /\ w \in inflight
  /\ disk' = issued[w]
  /\ inflight' = inflight \ {w}
  /\ UNCHANGED <<now, storedValue, isHydrated, loadPc, loadResult, timers, debounceRef,
                 issued, nextId, calls, nCalls, lastCall, renderError, warned, unhandled,
                 gen, saved>>
  /\ UNCHANGED <<fileVars, startup, envVars>>

(* storage:write in the host rejects (mkdir, writeFile or rename failed): the *)
(* promise storage.write returned is rejected, and the timeout callback       *)
(* neither awaits it nor attaches a catch                                     *)
HostWriteFails(w) ==
  /\ w \in inflight
  /\ inflight' = inflight \ {w}
  /\ unhandled' = unhandled + 1
  /\ UNCHANGED <<now, storedValue, isHydrated, loadPc, loadResult, timers, debounceRef,
                 issued, disk, nextId, calls, nCalls, lastCall, renderError, warned,
                 gen, saved>>
  /\ UNCHANGED <<fileVars, startup, envVars>>

Tick ==
  /\ now + TickMs <= MaxTime
  /\ now' = now + TickMs
  /\ UNCHANGED <<storedValue, isHydrated, loadPc, loadResult, timers, debounceRef,
                 issued, inflight, disk, nextId, calls, nCalls, lastCall, renderError,
                 warned, unhandled, gen, saved>>
  /\ UNCHANGED <<fileVars, startup, envVars>>

(* no file step has been taken *)
FileIdle ==
  /\ inodes = <<>>
  /\ destIno = 0
  /\ tmpIno = 0
  /\ wreqs = <<>>
  /\ rreqs = <<>>
  /\ committed = {}
  /\ overlapped = FALSE
  /\ crashes = 0

StoreInit ==
  /\ now = 0
  /\ storedValue = [doc |-> DEFAULT_DATA, lin |-> <<>>]
  /\ isHydrated = FALSE
  /\ loadPc = "reading"
  /\ loadResult = Absent
  /\ timers = {}
  /\ debounceRef = 0
  /\ issued = <<>>
  /\ inflight = {}
  /\ disk \in {Absent} \cup {[doc |-> d, lin |-> <<>>] : d \in StoredDocuments}
  /\ nextId = 0
  /\ calls = <<>>
  /\ nCalls = 0
  /\ lastCall = Called("none", "", EmptyId, FALSE, NoFields)
  /\ renderError = FALSE
  /\ warned = 0
  /\ unhandled = 0
  /\ gen = 0
  /\ saved = [doc |-> DEFAULT_DATA, lin |-> <<>>]
  /\ startup = [found |-> disk # Absent, loadedAt |-> -1]

(* the store constructed on a first run, no set call made *)
StoreIdle ==
  /\ StoreInit
  /\ disk = Absent

(* ---------------- storage keys and the files they name ---------------- *)

Keys == {"academic-dashboard", "academic-dashboard-settings", "settings", "notes"}
Paths == {"data.json", "settings.json"}
NoTimer == [none |-> TRUE]

storageKeyToFileKey(key) ==
  IF key = "academic-dashboard" THEN "data"
  ELSE IF key = "academic-dashboard-settings" THEN "settings"
  ELSE key

getStoragePathOneFile(key) == "data.json"

getStoragePath(key) == IF key = "settings" THEN "settings.json" ELSE "data.json"

(* no instance but the store's is constructed *)
KeysIdle ==
  /\ kValue = [k \in Keys |-> Absent]
  /\ kTimer = [k \in Keys |-> NoTimer]
  /\ kFiles = [p \in Paths |-> Absent]
  /\ kWritten = [k \in Keys |-> Absent]
  /\ kCalls = 0
  /\ kLast = [op |-> "none", key |-> ""]

(* ------------------ JSON.stringify and JSON.parse --------------------- *)

Str(x) == [str |-> x]

(* an object without the properties whose value is undefined *)
DropUndefined(o) == [k \in {j \in DOMAIN o : o[j] # Undefined} |-> o[k]]

(* a stringify that writes every collection as an empty list *)
JSONstringifyShallow(doc) == [json |-> [c \in DOMAIN doc |-> <<>>]]

(* JSON.stringify(doc): the text of a document of lists of flat records; *)
(* properties whose value is undefined are left out of the text          *)
JSONstringify(doc) ==
  [json |-> [c \in DOMAIN doc |-> [i \in 1..Len(doc[c]) |-> DropUndefined(doc[c][i])]]]

(* a text JSON.parse rejects with a SyntaxError *)
CorruptText == [corrupt |-> TRUE]

(* JSON.parse(text) of a text JSON.stringify produced *)
JSONparse(text) == text.json

(* Documents as JavaScript builds them: a property may be present with the *)
(* value undefined.                                                         *)
JsDocs ==
  { [todos |-> <<>>],
    [todos |-> <<[text |-> Str("a")]>>],
    [todos |-> <<[text |-> Str("a"), due |-> Undefined]>>] }

JsItems == {[text |-> Str("b")], [text |-> Str("b"), due |-> Undefined]}

(* ------------- useLocalStorage (browser storage backend) -------------- *)

(* persist(data), localStorage branch, with the setItem deferred to a timeout *)
persistBrowserDeferred(store, data, ok) == store

(* persist(data), localStorage branch: setItem(key, JSON.stringify(data)) in a *)
(* try; ok = setItem returned, otherwise it threw (quota) and the catch warned *)
persistBrowser(store, data, ok) == IF ok THEN JSONstringify(data) ELSE store

(* setValue whose updater returned next *)
BrowserSetValue(next, ok) ==
  /\ bCalls < MaxCalls
  /\ bStore' = persistBrowser(bStore, next, ok)
  /\ bValue' = next
  /\ bCalls' = bCalls + 1
  /\ bLast' = [op |-> "set", ok |-> ok]
  /\ bWarned' = IF ok THEN bWarned ELSE bWarned + 1
  /\ UNCHANGED bHydrated
  /\ UNCHANGED <<storeVars, fileVars, startup, keyVars, idleVars>>

(* setValue(doc) *)
BrowserSet(doc, ok) == BrowserSetValue(doc, ok)

(* setValue(prev => ({ ...prev, todos: [...prev.todos, item] })) *)
BrowserAppend(item, ok) ==
  BrowserSetValue([bValue EXCEPT !.todos = Append(bValue.todos, item)], ok)

(* the mount effect: load() runs to its end without an await: getItem, *)
(* JSON.parse, setStoredValue, setIsHydrated(true)                     *)
BrowserLoad ==
  /\ ~bHydrated
  /\ bValue' = IF bStore \in {Absent, CorruptText} THEN bValue ELSE JSONparse(bStore)
  /\ bWarned' = IF bStore = CorruptText THEN bWarned + 1 ELSE bWarned
  /\ bHydrated' = TRUE
  /\ bLast' = [op |-> "load", ok |-> TRUE]
  /\ UNCHANGED <<bStore, bCalls>>
  /\ UNCHANGED <<storeVars, fileVars, startup, keyVars, idleVars>>

BrowserIdle ==
  /\ bValue = [todos |-> <<>>]
  /\ bStore = Absent
  /\ bHydrated = FALSE
  /\ bCalls = 0
  /\ bLast = [op |-> "none", ok |-> TRUE]
  /\ bWarned = 0

(* useIdleDetection is not mounted *)
IdleOff ==
  /\ isIdle = FALSE
  /\ idleTimers = {}
  /\ timerRef = 0
  /\ timeoutMs = 0
  /\ idleMounted = FALSE
  /\ lastActivity = 0
  /\ idleSetAt = -1

EnvIdle == KeysIdle /\ BrowserIdle /\ IdleOff

(* ------------- useLocalStorage instances on the file backend ---------- *)

(* the file a key is read from and written to *)
FileOf(key) == getStoragePath(storageKeyToFileKey(key))

(* what storage.read returns for the key now: null, or the parsed document *)
ReadBack(key) ==
  IF kFiles[FileOf(key)] = Absent THEN Absent ELSE JSONparse(kFiles[FileOf(key)].text)

(* setValue with one debounceRef shared by the instances *)
KeySetSharedRef(k, d) ==
  /\ kCalls < MaxCalls
  /\ kValue' = [kValue EXCEPT ![k] = d]
  /\ kTimer' = [j \in Keys |-> IF j = k THEN d ELSE NoTimer]
  /\ kCalls' = kCalls + 1
  /\ kLast' = [op |-> "set", key |-> k]
  /\ UNCHANGED <<kFiles, kWritten>>
  /\ UNCHANGED <<storeVars, fileVars, startup, browserVars, idleVars>>

(* setValue(d) on the instance of key k: the value in memory, and persist: *)
(* its own debounceRef cleared, a new timeout armed                        *)
KeySet(k, d) ==
  /\ kCalls < MaxCalls
  /\ kValue' = [kValue EXCEPT ![k] = d]
  /\ kTimer' = [kTimer EXCEPT ![k] = d]
  /\ kCalls' = kCalls + 1
  /\ kLast' = [op |-> "set", key |-> k]
  /\ UNCHANGED <<kFiles, kWritten>>
  /\ UNCHANGED <<storeVars, fileVars, startup, browserVars, idleVars>>

(* the timeout of instance k expires: storage.write(storageKeyToFileKey(key), *)
(* data), taken to the rename of writeJSON                                    *)
KeyWrite(k) ==
  /\ kTimer[k] # NoTimer
  /\ kFiles' = [kFiles EXCEPT ![FileOf(k)] = [text |-> JSONstringify(kTimer[k]), by |-> k]]
  /\ kWritten' = [kWritten EXCEPT ![k] = kTimer[k]]
  /\ kTimer' = [kTimer EXCEPT ![k] = NoTimer]
  /\ kLast' = [op |-> "write", key |-> k]
  /\ UNCHANGED <<kValue, kCalls>>
  /\ UNCHANGED <<storeVars, fileVars, startup, browserVars, idleVars>>

(* load() of instance k: storage.read(storageKeyToFileKey(key)), then *)
(* setStoredValue(result) unless it is null                           *)
KeyLoad(k) ==
  /\ kValue' = [kValue EXCEPT ![k] = IF ReadBack(k) = Absent THEN kValue[k]
                                                             ELSE ReadBack(k)]
  /\ kLast' = [op |-> "load", key |-> k]
  /\ UNCHANGED <<kTimer, kFiles, kWritten, kCalls>>
  /\ UNCHANGED <<storeVars, fileVars, startup, browserVars, idleVars>>

(* one instance per key, constructed with an empty document, no file yet *)
InitKeys ==
  /\ StoreIdle /\ FileIdle /\ BrowserIdle /\ IdleOff
  /\ kValue = [k \in Keys |-> [todos |-> <<>>]]
  /\ kTimer = [k \in Keys |-> NoTimer]
  /\ kFiles = [p \in Paths |-> Absent]
  /\ kWritten = [k \in Keys |-> Absent]
  /\ kCalls = 0
  /\ kLast = [op |-> "none", key |-> ""]

NextKeys ==
  \/ \E k \in Keys, d \in JsDocs : KeySet(k, d)
  \/ \E k \in Keys : KeyWrite(k)
  \/ \E k \in Keys : KeyLoad(k)

SpecKeys == InitKeys /\ [][NextKeys]_vars

(* localStorage at construction: nothing, a document stored earlier, or a *)
(* text that does not parse                                               *)
InitBrowser ==
  /\ StoreIdle /\ FileIdle /\ KeysIdle /\ IdleOff
  /\ bValue = [todos |-> <<>>]
  /\ bStore \in {Absent, CorruptText} \cup {JSONstringify(d) : d \in JsDocs}
  /\ bHydrated = FALSE
  /\ bCalls = 0
  /\ bLast = [op |-> "none", ok |-> TRUE]
  /\ bWarned = 0

NextBrowser ==
  \/ \E d \in JsDocs, ok \in BOOLEAN : BrowserSet(d, ok)
  \/ \E item \in JsItems, ok \in BOOLEAN : BrowserAppend(item, ok)
  \/ BrowserLoad

SpecBrowser == InitBrowser /\ [][NextBrowser]_vars

Init == StoreInit /\ FileIdle /\ EnvIdle

Lags == {0, TickMs}

(* the store over a backend that succeeds, the updater of every set call run *)
(* as soon as the call is made                                               *)
Next ==
  \/ \E c \in OpCollections, t \in Texts : Add(c, [text |-> t], 0)
  \/ \E c \in OpCollections, id \in Ids, u \in Partials : Update(c, id, u)
  \/ \E c \in OpCollections, id \in Ids : Delete(c, id)
  \/ SetLiteral(DEFAULT_DATA)
  \/ HostRead
  \/ LoadResume
  \/ \E t \in timers : TimerFire(t)
  \/ \E w \in inflight : HostWrite(w)
  \/ Tick

(* time passing while a timeout is pending, however late the clock is *)
Elapse ==
  /\ \E t \in timers : t.deadline > now
  /\ now' = now + TickMs
  /\ UNCHANGED <<storedValue, isHydrated, loadPc, loadResult, timers, debounceRef,
                 issued, inflight, disk, nextId, calls, nCalls, lastCall, renderError,
                 warned, unhandled, gen, saved>>
  /\ UNCHANGED <<fileVars, startup, envVars>>

(* The application is closed with nothing pending and started again: the    *)
(* renderer's state is gone, useLocalStorage is constructed anew (useState  *)
(* initial values, the load effect started), data.json is what it was       *)
Restart ==
  /\ gen < MaxRestarts
  /\ timers = {}
  /\ inflight = {}
  /\ gen' = gen + 1
  /\ saved' = IF gen = 0 THEN storedValue ELSE saved
  /\ storedValue' = [doc |-> DEFAULT_DATA, lin |-> <<>>]
  /\ isHydrated' = FALSE
  /\ loadPc' = "reading"
  /\ loadResult' = Absent
  /\ debounceRef' = 0
  /\ calls' = <<>>
  /\ renderError' = FALSE
  /\ UNCHANGED <<now, timers, issued, inflight, disk, nextId, nCalls, lastCall, warned,
                 unhandled>>
  /\ startup' = [found |-> disk # Absent, loadedAt |-> -1]
  /\ UNCHANGED <<fileVars, envVars>>

Spec == Init /\ [][Next]_vars

(* The same store driven through one collection only. *)
NextStore ==
  \/ \E lag \in Lags : Add("todos", [text |-> "a"], lag)
  \/ Update("todos", uuidv4(1), [text |-> "b"])
  \/ Delete("todos", uuidv4(1))
  \/ SetLiteral(DEFAULT_DATA)
  \/ HostRead
  \/ HostReadFails
  \/ LoadResume
  \/ \E t \in timers : TimerFire(t)
  \/ \E w \in inflight : HostWrite(w)
  \/ \E w \in inflight : HostWriteFails(w)
  \/ Tick

SpecStore == Init /\ [][NextStore]_vars

(* The collection surfaces driven with every kind of argument: fields that  *)
(* carry an id and a createdAt of their own, partial updates that overwrite *)
(* them, ids that match and ids that do not, a clock that moves between the *)
(* wrapper and the updater. The writes are left to Spec and SpecStore, and  *)
(* the clock moves with the adds.                                           *)
AddInputs == [text : Texts] \cup {[text |-> "a", id |-> uuidv4(1), createdAt |-> -1]}

NextCrud ==
  \/ \E c \in OpCollections, f \in AddInputs, lag \in Lags : Add(c, f, lag)
  \/ \E c \in OpCollections, id \in Ids, u \in Partials : Update(c, id, u)
  \/ \E c \in OpCollections, id \in Ids : Delete(c, id)
  \/ HostRead
  \/ LoadResume

SpecCrud == Init /\ [][NextCrud]_vars

(* One add on a first run, then a restart: no backing data at the start, a   *)
(* backend that succeeds, no set call after the add.                         *)
InitRestart == Init /\ disk = Absent

(* the one add of the first run *)
FirstAdd(c, fields, lag) ==
  /\ gen = 0
  /\ nCalls = 0
  /\ Add(c, fields, lag)

NextRestart ==
  \/ \E c \in OpCollections, t \in Texts, lag \in Lags : FirstAdd(c, [text |-> t], lag)
  \/ HostRead
  \/ LoadResume
  \/ \E t \in timers : TimerFire(t)
  \/ \E w \in inflight : HostWrite(w)
  \/ Tick
  \/ Elapse
  \/ Restart

(* The event loop runs a due timeout, the host finishes the I/O it was asked *)
(* for, time passes while a timeout is pending, and the application is       *)
(* started again once it was closed.                                         *)
FairRestart ==
  /\ WF_vars(\E t \in timers : TimerFire(t))
  /\ WF_vars(\E w \in inflight : HostWrite(w))
  /\ WF_vars(HostRead)
  /\ WF_vars(LoadResume)
  /\ WF_vars(Elapse)
  /\ WF_vars(Restart)

SpecRestart == InitRestart /\ [][NextRestart]_vars /\ FairRestart

(* --------------------- host process (electron/main.ts) ---------------- *)

(* the documents the renderer sends in storage:write requests *)
WriteDocuments ==
  { DEFAULT_DATA,
    Put(DEFAULT_DATA, "todos", <<[text |-> "a", id |-> uuidv4(1), createdAt |-> 0]>>) }

Partial == [st |-> "partial"]
Complete(d) == [st |-> "complete", data |-> d]

Busy(reqs) == {r \in 1..Len(reqs) : reqs[r].pc \notin {"done", "failed"}}

(* what fs.readFile gave readJSON: an error with its code, or the text *)
ReadFileError(code) == [kind |-> "err", code |-> code]
ReadFileText(content) == [kind |-> "raw", content |-> content]

(* a catch that returns null whatever the error *)
readJSONNullOnError(res) ==
  IF res.kind = "err" THEN [kind |-> "null"]
  ELSE IF res.content.st = "complete" THEN [kind |-> "value", data |-> res.content.data]
  ELSE [kind |-> "null"]

(* readJSON: JSON.parse(raw) of the text; the catch returns null for ENOENT and *)
(* rethrows everything else, the SyntaxError of a truncated text included       *)
readJSON(res) ==
  IF res.kind = "err"
    THEN IF res.code = "ENOENT" THEN [kind |-> "null"] ELSE [kind |-> "error"]
  ELSE IF res.content.st = "complete" THEN [kind |-> "value", data |-> res.content.data]
  ELSE [kind |-> "error"]

(* what a read of data.json finds: the file the path names, or Absent *)
DestContent == IF destIno = 0 THEN Absent ELSE inodes[destIno]

(* the storage:write requests that returned { success: true } *)
WritesDone == {r \in 1..Len(wreqs) : wreqs[r].pc = "done"}

(* ipcRenderer.invoke("storage:write", {key: "data", data: d}) reaches the host; *)
(* hit = the step of the handler that rejected ("ENOENT": the rename found no *)
(* temporary file), dest0 and done0 = data.json and  *)
(* the writes done when the request arrived                                      *)
WriteRequest(d) ==
  /\ Len(wreqs) < MaxWrites
  /\ wreqs' = Append(wreqs, [pc |-> "mkdir", data |-> d, fd |-> 0, hit |-> "none",
                             dest0 |-> DestContent, done0 |-> WritesDone])
  /\ overlapped' = (overlapped \/ Busy(wreqs) # {})
  /\ UNCHANGED <<inodes, destIno, tmpIno, rreqs, committed, crashes>>
  /\ UNCHANGED <<storeVars, startup, envVars>>

(* await ensureUserDataDir() *)
HostWriteMkdir(r) ==
  /\ wreqs[r].pc = "mkdir"
  /\ wreqs' = [wreqs EXCEPT ![r].pc = "open"]
  /\ UNCHANGED <<inodes, destIno, tmpIno, rreqs, committed, overlapped, crashes>>
  /\ UNCHANGED <<storeVars, startup, envVars>>

(* fs.mkdir(userData, { recursive: true }) rejects *)
HostWriteMkdirFails(r) ==
  /\ wreqs[r].pc = "mkdir"
  /\ wreqs' = [wreqs EXCEPT ![r].pc = "failed", ![r].hit = "mkdir"]
  /\ UNCHANGED <<inodes, destIno, tmpIno, rreqs, committed, overlapped, crashes>>
  /\ UNCHANGED <<storeVars, startup, envVars>>

(* fs.writeFile(tempPath, ...) opens the temporary path with flag "w": the file *)
(* the path names is truncated, or a new file is created                        *)
HostWriteOpen(r) ==
  /\ wreqs[r].pc = "open"
  /\ IF tmpIno # 0
       THEN /\ inodes' = [inodes EXCEPT ![tmpIno] = Partial]
            /\ wreqs' = [wreqs EXCEPT ![r].pc = "write", ![r].fd = tmpIno]
            /\ UNCHANGED tmpIno
       ELSE /\ inodes' = Append(inodes, Partial)
            /\ tmpIno' = Len(inodes) + 1
            /\ wreqs' = [wreqs EXCEPT ![r].pc = "write", ![r].fd = Len(inodes) + 1]
  /\ UNCHANGED <<destIno, rreqs, committed, overlapped, crashes>>
  /\ UNCHANGED <<storeVars, startup, envVars>>

(* fs.writeFile(tempPath, ...) rejects at the open: nothing is created or truncated *)
HostWriteOpenFails(r) ==
  /\ wreqs[r].pc = "open"
  /\ wreqs' = [wreqs EXCEPT ![r].pc = "failed", ![r].hit = "open"]
  /\ UNCHANGED <<inodes, destIno, tmpIno, rreqs, committed, overlapped, crashes>>
  /\ UNCHANGED <<storeVars, startup, envVars>>

(* fs.writeFile(tempPath, ...) rejects while writing (disk full): the file it *)
(* opened is left truncated                                                   *)
HostWriteDataFails(r) ==
  /\ wreqs[r].pc = "write"
  /\ wreqs' = [wreqs EXCEPT ![r].pc = "failed", ![r].hit = "write"]
  /\ UNCHANGED <<inodes, destIno, tmpIno, rreqs, committed, overlapped, crashes>>
  /\ UNCHANGED <<storeVars, startup, envVars>>

(* fs.writeFile writes JSON.stringify(data, null, 2) through its descriptor *)
HostWriteData(r) ==
  /\ wreqs[r].pc = "write"
  /\ inodes' = [inodes EXCEPT ![wreqs[r].fd] = Complete(wreqs[r].data)]
  /\ wreqs' = [wreqs EXCEPT ![r].pc = "rename"]
  /\ committed' = IF destIno = wreqs[r].fd THEN committed \cup {wreqs[r].data}
                                           ELSE committed
  /\ UNCHANGED <<destIno, tmpIno, rreqs, overlapped, crashes>>
  /\ UNCHANGED <<storeVars, startup, envVars>>

(* fs.rename(tempPath, filePath) rejects (EPERM, EBUSY): both paths stay *)
HostWriteRenameFails(r) ==
  /\ wreqs[r].pc = "rename"
  /\ wreqs' = [wreqs EXCEPT ![r].pc = "failed", ![r].hit = "rename"]
  /\ UNCHANGED <<inodes, destIno, tmpIno, rreqs, committed, overlapped, crashes>>
  /\ UNCHANGED <<storeVars, startup, envVars>>

(* fs.rename(tempPath, filePath); ENOENT when the temporary path is gone *)
HostWriteRename(r) ==
  /\ wreqs[r].pc = "rename"
  /\ IF tmpIno = 0
       THEN /\ wreqs' = [wreqs EXCEPT ![r].pc = "failed", ![r].hit = "ENOENT"]
            /\ UNCHANGED <<destIno, tmpIno, committed>>
       ELSE /\ destIno' = tmpIno
            /\ tmpIno' = 0
            /\ wreqs' = [wreqs EXCEPT ![r].pc = "done"]
            /\ committed' = IF inodes[tmpIno].st = "complete"
                               THEN committed \cup {inodes[tmpIno].data}
                               ELSE committed
  /\ UNCHANGED <<inodes, rreqs, overlapped, crashes>>
  /\ UNCHANGED <<storeVars, startup, envVars>>

(* ipcRenderer.invoke("storage:read", {key: "data"}) reaches the host *)
ReadRequest ==
  /\ Len(rreqs) < MaxReads
  /\ rreqs' = Append(rreqs, [pc |-> "open", fd |-> 0, result |-> [kind |-> "none"],
                             saw |-> "nothing"])
  /\ UNCHANGED <<inodes, destIno, tmpIno, wreqs, committed, overlapped, crashes>>
  /\ UNCHANGED <<storeVars, startup, envVars>>

(* fs.readFile(filePath) opens data.json: ENOENT makes readJSON return null *)
HostReadOpen(r) ==
  /\ rreqs[r].pc = "open"
  /\ rreqs' = IF destIno = 0
                 THEN [rreqs EXCEPT ![r].pc = "done", ![r].saw = "ENOENT",
                                    ![r].result = readJSON(ReadFileError("ENOENT"))]
                 ELSE [rreqs EXCEPT ![r].pc = "read", ![r].fd = destIno]
  /\ UNCHANGED <<inodes, destIno, tmpIno, wreqs, committed, overlapped, crashes>>
  /\ UNCHANGED <<storeVars, startup, envVars>>

(* fs.readFile(filePath) fails for another reason than a missing file *)
(* (permission denied, I/O error)                                     *)
HostReadOpenFails(r) ==
  /\ rreqs[r].pc = "open"
  /\ rreqs' = [rreqs EXCEPT ![r].pc = "done", ![r].saw = "EACCES",
                            ![r].result = readJSON(ReadFileError("EACCES"))]
  /\ UNCHANGED <<inodes, destIno, tmpIno, wreqs, committed, overlapped, crashes>>
  /\ UNCHANGED <<storeVars, startup, envVars>>

(* fs.readFile reads the file it opened to its end, then JSON.parse *)
HostReadData(r) ==
  /\ rreqs[r].pc = "read"
  /\ rreqs' = [rreqs EXCEPT ![r].pc = "done",
                            ![r].saw = IF inodes[rreqs[r].fd].st = "complete"
                                         THEN "document" ELSE "truncated",
                            ![r].result = readJSON(ReadFileText(inodes[rreqs[r].fd]))]
  /\ UNCHANGED <<inodes, destIno, tmpIno, wreqs, committed, overlapped, crashes>>
  /\ UNCHANGED <<storeVars, startup, envVars>>

(* The host process is killed and started again: its handlers are gone, and the *)
(* new process has another pid, so another temporary path.                      *)
HostCrash ==
  /\ crashes < MaxCrashes
  /\ Busy(wreqs) # {}
  /\ crashes' = crashes + 1
  /\ wreqs' = [r \in 1..Len(wreqs) |->
                 IF r \in Busy(wreqs) THEN [wreqs[r] EXCEPT !.pc = "failed"] ELSE wreqs[r]]
  /\ rreqs' = [r \in 1..Len(rreqs) |->
                 IF r \in Busy(rreqs) THEN [rreqs[r] EXCEPT !.pc = "failed"] ELSE rreqs[r]]
  /\ tmpIno' = 0
  /\ UNCHANGED <<inodes, destIno, committed, overlapped>>
  /\ UNCHANGED <<storeVars, startup, envVars>>

(* data.json at the start: missing, or a complete document written earlier *)
FileInit ==
  /\ \/ inodes = <<>> /\ destIno = 0 /\ committed = {}
     \/ inodes = <<Complete(DEFAULT_DATA)>> /\ destIno = 1 /\ committed = {DEFAULT_DATA}
  /\ tmpIno = 0
  /\ wreqs = <<>>
  /\ rreqs = <<>>
  /\ overlapped = FALSE
  /\ crashes = 0

InitFile == StoreIdle /\ FileInit /\ EnvIdle

NextFile ==
  \/ \E d \in WriteDocuments : WriteRequest(d)
  \/ \E r \in 1..Len(wreqs) : HostWriteMkdir(r)
  \/ \E r \in 1..Len(wreqs) : HostWriteOpen(r)
  \/ \E r \in 1..Len(wreqs) : HostWriteData(r)
  \/ \E r \in 1..Len(wreqs) : HostWriteRename(r)
  \/ \E r \in 1..Len(wreqs) : HostWriteMkdirFails(r)
  \/ \E r \in 1..Len(wreqs) : HostWriteOpenFails(r)
  \/ \E r \in 1..Len(wreqs) : HostWriteDataFails(r)
  \/ \E r \in 1..Len(wreqs) : HostWriteRenameFails(r)
  \/ ReadRequest
  \/ \E r \in 1..Len(rreqs) : HostReadOpen(r)
  \/ \E r \in 1..Len(rreqs) : HostReadOpenFails(r)
  \/ \E r \in 1..Len(rreqs) : HostReadData(r)
  \/ HostCrash

SpecFile == InitFile /\ [][NextFile]_vars

(* ------------------------------ claims -------------------------------- *)

IsPrefix(s, t) == Len(s) <= Len(t) /\ \A i \in 1..Len(s) : s[i] = t[i]

(* the set call that produced a value: the last of its lineage, 0 for a value *)
(* no set call produced                                                       *)
Producer(v) == IF v.lin = <<>> THEN 0 ELSE v.lin[Len(v.lin)]

SetStep == nCalls' = nCalls + 1

(* C1: every set call reflected in the durable document of the key is also  *)
(* reflected in the in-memory value: the lineage of data.json is a prefix of *)
(* the lineage of storedValue.                                               *)
C1_MemoryNotBehindDisk ==
  disk # Absent => IsPrefix(disk.lin, storedValue.lin)

(* C2: the in-memory value reflects every set call whose updater returned,  *)
(* in call order, whatever the interleaving with the completion of load().   *)
C2_SetCallsAppliedInOrder ==
  storedValue.lin = [k \in 1..Len(calls) |-> calls[k].id]

(* C3: once a document lacking todos is loaded, todos.list is the empty      *)
(* sequence, a following todos.add raises no error and leaves a todos list   *)
(* of length 1, and the next storage.write carries that todo.                *)
C3_TodosWidened ==
  [][ /\ (loadPc = "done" /\ ~Has(storedValue.doc, "todos"))
         => /\ List(storedValue.doc, "todos") = [list |-> <<>>]
            /\ (SetStep /\ lastCall'.op = "add" /\ lastCall'.c = "todos")
                 => /\ ~renderError'
                    /\ Len(List(storedValue'.doc, "todos").list) = 1
      /\ (Len(issued') > Len(issued) /\ lastCall.op = "add" /\ lastCall.c = "todos"
          /\ Producer(issued'[Len(issued')]) = nCalls)
         => \E i \in 1..Len(issued'[Len(issued')].doc.todos) :
               issued'[Len(issued')].doc.todos[i].id = lastCall.id ]_vars

(* C4: the list of each of the ten collections is a sequence in every state, *)
(* never undefined, also after loading a document that lacks the collection.  *)
C4_EveryListIsSequence ==
  \A c \in Collections : List(storedValue.doc, c) # Undefined

(* C5: after loading a document that lacks a collection, the document each   *)
(* storage.write carries contains every collection key of the schema.        *)
C5_WritesCarryFullSchema ==
  \A w \in 1..Len(issued) : DOMAIN issued[w].doc = Collections

(* C6: an update never changes the id or the createdAt of any record (update *)
(* keeps every record at its position).                                      *)
C6_IdAndCreatedAtImmutable ==
  [][ (SetStep /\ lastCall'.op = "update" /\ ~lastCall'.threw)
        => \A c \in DOMAIN storedValue.doc :
             \A i \in 1..Len(storedValue.doc[c]) :
                /\ storedValue'.doc[c][i].id = storedValue.doc[c][i].id
                /\ storedValue'.doc[c][i].createdAt = storedValue.doc[c][i].createdAt
    ]_vars

(* C7: the ids of the records of a collection are non-empty and pairwise     *)
(* distinct after any sequence of add, update and delete.                    *)
C7_IdsUniqueNonEmpty ==
  \A c \in DOMAIN storedValue.doc :
    \A i, j \in 1..Len(storedValue.doc[c]) :
       /\ storedValue.doc[c][i].id # EmptyId
       /\ (i # j => storedValue.doc[c][i].id # storedValue.doc[c][j].id)

CallIds == {calls[k].id : k \in 1..Len(calls)}

(* call k was followed by another set call less than the debounce delay later *)
Superseded(k) ==
  k < Len(calls) /\ calls[k + 1].at - calls[k].at < DebounceDelay

(* C8: in a burst of set calls, each less than 100 ms after the previous     *)
(* one, no storage.write carries the value of a call that is not the last    *)
(* of its burst, no value is written twice, and once no timeout is pending   *)
(* the value of the last call has been written (exactly once).               *)
C8_DebounceCoalescing ==
  /\ \A w \in 1..Len(issued) :
        \E k \in 1..Len(calls) :
           calls[k].id = Producer(issued[w]) /\ ~Superseded(k)
  /\ \A w1, w2 \in 1..Len(issued) :
        w1 # w2 => Producer(issued[w1]) # Producer(issued[w2])
  /\ (timers = {} /\ calls # <<>>)
       => \E w \in 1..Len(issued) : Producer(issued[w]) = calls[Len(calls)].id

(* a burst of two calls has been made and the value of its last call written *)
C8_Witness ==
  \E k \in 1..Len(calls) :
     /\ Superseded(k)
     /\ ~Superseded(k + 1)
     /\ \E w \in 1..Len(issued) : Producer(issued[w]) = calls[k + 1].id

(* C9: the storage.write calls of the instance carry values of set calls, in *)
(* the order the calls were made: a later write carries a later call's value. *)
C9_WritesInSetOrder ==
  /\ \A w \in 1..Len(issued) : Producer(issued[w]) \in CallIds
  /\ \A w1, w2 \in 1..Len(issued) :
        w1 < w2 => Producer(issued[w1]) < Producer(issued[w2])

(* two writes have been issued *)
C9_Witness == Len(issued) >= 2

(* what a completed read returned is a document data.json held complete *)
ReadIntact(r) ==
  rreqs[r].pc = "done"
    => \/ rreqs[r].result.kind = "null"
       \/ rreqs[r].result.kind = "value" /\ rreqs[r].result.data \in committed
       \/ rreqs[r].result.kind = "error" /\ rreqs[r].saw = "EACCES"

(* C10: a storage:read performed at any point during a storage:write returns *)
(* the document committed before, null, or the complete new document, never  *)
(* a truncated one: data.json is never a truncated file and no read fails to *)
(* parse.                                                                    *)
C10_ReadsNeverTorn ==
  /\ destIno # 0 => inodes[destIno].st = "complete"
  /\ \A r \in 1..Len(rreqs) : ReadIntact(r)

(* The same while no two storage:write handlers have been in progress at once. *)
SingleWriterReadsNeverTorn == overlapped \/ C10_ReadsNeverTorn

(* ---------------------------------------------------------------------- *)
(* The hydration signal and the load fallback                             *)
(* ---------------------------------------------------------------------- *)

(* C11: isHydrated is false from construction until the initial load has  *)
(* resolved; once the load has resolved, with a document, with nothing or *)
(* with a failure, isHydrated is true, and no later step, set calls       *)
(* included, makes it false again.                                        *)
C11_HydratedOnceLoadResolved ==
  /\ [](isHydrated <=> loadPc = "done")
  /\ [][isHydrated => isHydrated']_vars

(* the load failed, the signal is up, and set calls were made *)
C11_Witness ==
  /\ isHydrated
  /\ loadResult = ReadError
  /\ nCalls = MaxCalls

(* the ids of the set calls that went through, in call order *)
CallLineage == [k \in 1..Len(calls) |-> calls[k].id]

(* C12: when the read of the initial load returns absent or fails, the    *)
(* in-memory value stays what it was without the load: the supplied       *)
(* default with the set calls made so far applied, the default itself     *)
(* when none was made; a failure is logged with console.warn once and     *)
(* nothing is raised; hydration completes.                                *)
C12_LoadFallbackKeepsDefault ==
  (loadPc = "done" /\ loadResult \in {Absent, ReadError}) =>
    /\ storedValue.lin = CallLineage
    /\ calls = <<>> => storedValue.doc = DEFAULT_DATA
    /\ warned = (IF loadResult = ReadError THEN 1 ELSE 0)
    /\ ~renderError
    /\ isHydrated

(* a failed load resolved after a set call: the value set is still there *)
C12_Witness ==
  /\ loadPc = "done"
  /\ loadResult = ReadError
  /\ warned = 1
  /\ calls # <<>>
  /\ storedValue.doc # DEFAULT_DATA

(* ---------------------------------------------------------------------- *)
(* A physical write that fails                                            *)
(* ---------------------------------------------------------------------- *)

(* C13: when a physical write fails, the failure is caught and logged as  *)
(* a warning and is not raised: no rejection of storage.write is left     *)
(* without a handler, and each one is matched by a console.warn.          *)
C13_WriteFailureLoggedNotRaised ==
  /\ unhandled = 0
  /\ warned = (IF loadPc = "done" /\ loadResult = ReadError THEN 1 ELSE 0)

(* the rest of C13, which the code keeps: a failing write leaves the    *)
(* in-memory value, the pending timeout and the mounted tree as they are, *)
(* so the value set is kept and later set calls go through as before    *)
WriteFailureKeepsMemory ==
  [][unhandled' # unhandled =>
       /\ storedValue' = storedValue
       /\ timers' = timers
       /\ renderError' = renderError]_vars

(* ---------------------------------------------------------------------- *)
(* Two adds within one debounce window                                    *)
(* ---------------------------------------------------------------------- *)

(* the timeout the last set call armed, while it is pending *)
PendingOfLastCall == {t \in timers : t.h = nCalls}

(* this step is an add on collection c made while the timeout of the *)
(* previous set call, an add on c too, is still pending                 *)
SecondAddInWindow ==
  /\ lastCall.op = "add"
  /\ ~lastCall.threw
  /\ PendingOfLastCall # {}
  /\ nCalls' = nCalls + 1
  /\ lastCall'.op = "add"
  /\ lastCall'.c = lastCall.c

(* the last two records of list are a then b *)
EndsWith(list, a, b) ==
  /\ Len(list) >= 2
  /\ list[Len(list) - 1].id = a
  /\ list[Len(list)].id = b

(* after the step one timeout is pending, the second add's, and its document *)
(* is the first add's document with the second record appended                 *)
OneWriteWithBoth ==
  /\ ~lastCall'.threw
  /\ \E t1 \in PendingOfLastCall, t2 \in timers' :
       /\ timers' = {t2}
       /\ t2.h = nCalls'
       /\ t2.data = storedValue'
       /\ t2.data.lin = Append(t1.data.lin, nCalls')
       /\ Has(t2.data.doc, lastCall.c)
       /\ EndsWith(t2.data.doc[lastCall.c], lastCall.id, lastCall'.id)
       /\ Len(t2.data.doc[lastCall.c]) = Len(t1.data.doc[lastCall.c]) + 1

(* C14: todos.add(a) followed by todos.add(b) within one debounce window  *)
(* leaves exactly one physical write to come, whose document holds both   *)
(* records, a before b: the second add is applied to the result of the    *)
(* first.                                                                 *)
C14_TwoAddsOneWrite == [][SecondAddInWindow => OneWriteWithBoth]_vars

(* C14 holds when no load resolved between the two adds: the in-memory  *)
(* value is still the one the first add returned                          *)
TwoAddsOneWriteWithoutLoadBetween ==
  [][(SecondAddInWindow /\ \E t1 \in PendingOfLastCall : t1.data = storedValue)
       => OneWriteWithBoth]_vars

(* ---------------------------------------------------------------------- *)
(* Durability across a restart                                            *)
(* ---------------------------------------------------------------------- *)

(* the store's first instance has made its add *)
AddedOnFirstRun ==
  /\ gen = 0
  /\ lastCall.op = "add"
  /\ ~lastCall.threw

(* a later instance has loaded a document whose collection holds exactly  *)
(* the record added: the id generated, the fields passed, and the record  *)
(* the first instance had in memory                                       *)
LoadedTheRecord ==
  /\ gen >= 1
  /\ loadPc = "done"
  /\ Has(storedValue.doc, lastCall.c)
  /\ Len(storedValue.doc[lastCall.c]) = 1
  /\ storedValue.doc[lastCall.c][1].id = lastCall.id
  /\ storedValue.doc[lastCall.c][1].text = lastCall.updates.text
  /\ storedValue.doc = saved.doc

(* C15: starting with no backing data, after an add and with no further   *)
(* set call, the debounce timeout eventually fires and the write          *)
(* completes, and a store instance created afterwards on the same backend *)
(* loads a document whose collection holds exactly that record, with the  *)
(* same id and fields.                                                    *)
C15_DurableAcrossRestart == AddedOnFirstRun ~> LoadedTheRecord

(* a second instance has loaded the paper the first one added *)
C15_Witness ==
  /\ LoadedTheRecord
  /\ lastCall.c = "papers"
  /\ isHydrated

(* ---------------------------------------------------------------------- *)
(* The collection surfaces: add, update, delete                           *)
(* ---------------------------------------------------------------------- *)

(* this step is a call of op on some collection surface *)
CallOf(op) == SetStep /\ lastCall'.op = op

(* the collection, id and fields the call of this step was given *)
CallC == lastCall'.c
CallId == lastCall'.id
CallFields == lastCall'.updates

(* the collection's list before and after the step *)
Before == OrEmpty(storedValue.doc, CallC)
After == OrEmpty(storedValue'.doc, CallC)

Matches(list, id) == {i \in 1..Len(list) : list[i].id = id}

(* the step raised nothing and left the tree mounted *)
NothingRaised == ~lastCall'.threw /\ ~renderError'

(* every collection but the call's is what it was, and none came or went *)
OthersUnchanged ==
  /\ DOMAIN storedValue'.doc = DOMAIN storedValue.doc
  /\ \A k \in (DOMAIN storedValue.doc) \ {CallC} : storedValue'.doc[k] = storedValue.doc[k]

(* C16: papers.add creates a record whose updatedAt equals its createdAt, *)
(* however the clock behaves between the call and the state update.      *)
C16_PaperUpdatedAtEqualsCreatedAt ==
  [][(CallOf("add") /\ CallC = "papers" /\ ~lastCall'.threw) =>
       After[Len(After)].updatedAt = After[Len(After)].createdAt]_vars

(* what the code does give: updatedAt is the clock at the call, createdAt *)
(* the clock when the updater runs, never earlier                         *)
PaperUpdatedAtNotAfterCreatedAt ==
  [][(CallOf("add") /\ CallC = "papers" /\ ~lastCall'.threw) =>
       /\ After[Len(After)].updatedAt = now
       /\ After[Len(After)].createdAt = now'
       /\ now <= now']_vars

(* the step left the in-memory document as it was *)
NoOp == NothingRaised /\ storedValue'.doc = storedValue.doc

(* C17: update and delete called with an id that matches no record of the *)
(* collection are no-ops: they raise no error, create no record, and      *)
(* leave the collection's list and every other collection unchanged.      *)
C17_UnknownIdIsNoOp ==
  [][((CallOf("update") \/ CallOf("delete")) /\ Matches(Before, CallId) = {}) => NoOp]_vars

(* C17 holds whenever the document in memory has the collection *)
UnknownIdIsNoOpOnPresentCollection ==
  [][((CallOf("update") \/ CallOf("delete")) /\ Matches(Before, CallId) = {}
        /\ Has(storedValue.doc, CallC)) => NoOp]_vars

(* the fields the wrapper stamps on an update of collection c *)
Stamped(c) == IF c = "papers" THEN {"updatedAt"} ELSE {}

(* record new is record old with the fields of the call merged in *)
MergedInPlace(old, new) ==
  /\ DOMAIN new = (DOMAIN old) \cup (DOMAIN CallFields) \cup Stamped(CallC)
  /\ \A k \in DOMAIN CallFields : new[k] = CallFields[k]
  /\ CallC = "papers" => new.updatedAt = now
  /\ \A k \in (DOMAIN old) \ ((DOMAIN CallFields) \cup Stamped(CallC)) : new[k] = old[k]

(* C18: update with a matching id replaces that record, at the same       *)
(* position, by the shallow merge of the record and the partial fields,   *)
(* the partial fields winning, and for papers with updatedAt set to the   *)
(* current time; the fields not named, the other records and the other    *)
(* collections are unchanged.                                             *)
C18_UpdateMergesInPlace ==
  [][(CallOf("update") /\ Matches(Before, CallId) # {}) =>
       /\ NothingRaised
       /\ Len(After) = Len(Before)
       /\ \A i \in 1..Len(Before) :
            IF i \in Matches(Before, CallId) THEN MergedInPlace(Before[i], After[i])
                                             ELSE After[i] = Before[i]
       /\ OthersUnchanged]_vars

(* a paper updated in place, first of two, its text replaced and its *)
(* updatedAt later than its createdAt                                 *)
C18_Witness ==
  /\ lastCall.op = "update"
  /\ lastCall.c = "papers"
  /\ ~lastCall.threw
  /\ Has(storedValue.doc, "papers")
  /\ Len(storedValue.doc["papers"]) = 2
  /\ storedValue.doc["papers"][1].id = lastCall.id
  /\ storedValue.doc["papers"][1].text = "b"
  /\ storedValue.doc["papers"][1].updatedAt > storedValue.doc["papers"][1].createdAt
  /\ storedValue.doc["papers"][2].id # lastCall.id

(* C19: delete with a matching id leaves the collection with no record of *)
(* that id, the other records unchanged and in the same relative order,   *)
(* and the other collections unchanged.                                   *)
C19_DeleteRemovesMatching ==
  [][(CallOf("delete") /\ Matches(Before, CallId) # {}) =>
       /\ NothingRaised
       /\ Matches(After, CallId) = {}
       /\ After = SelectSeq(Before, LAMBDA r : r.id # CallId)
       /\ OthersUnchanged]_vars

(* the first of two todos deleted: the second is what is left *)
C19_Witness ==
  /\ lastCall.op = "delete"
  /\ lastCall.c = "todos"
  /\ lastCall.id = uuidv4(1)
  /\ ~lastCall.threw
  /\ nCalls = 3
  /\ Has(storedValue.doc, "todos")
  /\ Len(storedValue.doc["todos"]) = 1
  /\ storedValue.doc["todos"][1].id = uuidv4(2)

(* the step appended one record made of the fields of the call, the id   *)
(* generated and the clock read by the updater                             *)
AppendedOne ==
  /\ NothingRaised
  /\ Len(After) = Len(Before) + 1
  /\ SubSeq(After, 1, Len(Before)) = Before
  /\ LET r == After[Len(After)]
     IN /\ r.id = CallId
        /\ CallId = uuidv4(nextId')
        /\ r.createdAt = now'
        /\ \A k \in (DOMAIN CallFields) \ {"id", "createdAt"} : r[k] = CallFields[k]
        /\ DOMAIN r = (DOMAIN CallFields) \cup {"id", "createdAt"} \cup Stamped(CallC)
  /\ OthersUnchanged

(* C20: add(fields) appends exactly one record at the end of the          *)
(* collection, made of fields plus a generated id and createdAt set to    *)
(* the current time, the two winning over any id or createdAt in fields;  *)
(* the existing records keep content and order, the other collections are *)
(* unchanged.                                                             *)
C20_AddAppendsOne == [][CallOf("add") => AppendedOne]_vars

(* C20 holds whenever the document in memory has the collection *)
AddAppendsOneOnPresentCollection ==
  [][(CallOf("add") /\ Has(storedValue.doc, CallC)) => AppendedOne]_vars

(* ---------------------------------------------------------------------- *)
(* The host's storage handlers                                            *)
(* ---------------------------------------------------------------------- *)

ReadsDone == {r \in 1..Len(rreqs) : rreqs[r].pc = "done"}

(* C21: storage:read returns null, raising nothing, exactly when the file *)
(* does not exist, and raises an error for every other failure, a file    *)
(* whose content cannot be parsed included; it returns a value only for a *)
(* complete document, the one the file holds, never null or a part of it. *)
C21_ReadAbsentIsNotFailure ==
  \A r \in ReadsDone :
    /\ rreqs[r].result.kind = "null" <=> rreqs[r].saw = "ENOENT"
    /\ rreqs[r].result.kind = "error" <=> rreqs[r].saw \in {"EACCES", "truncated"}
    /\ rreqs[r].result.kind = "value" <=> rreqs[r].saw = "document"
    /\ rreqs[r].result.kind = "value" =>
         /\ inodes[rreqs[r].fd].st = "complete"
         /\ rreqs[r].result.data \in committed

(* one read met a missing file and returned null, another met a truncated *)
(* file and raised                                                        *)
C21_Witness ==
  \E r1, r2 \in ReadsDone :
    /\ rreqs[r1].saw = "ENOENT" /\ rreqs[r1].result.kind = "null"
    /\ rreqs[r2].saw = "truncated" /\ rreqs[r2].result.kind = "error"

(* the storage:write requests one of whose steps rejected *)
WritesFailed == {r \in 1..Len(wreqs) : wreqs[r].hit # "none"}

(* C22: a storage:write that fails at the directory creation, at the      *)
(* staging of the temporary file or at the rename signals an error to its *)
(* caller, never success, and leaves the committed file unchanged: once   *)
(* it has failed data.json is what it was when the request arrived, or    *)
(* the document of a write that has returned success since, so a read     *)
(* returns that.                                                          *)
C22_FailedWriteKeepsCommitted ==
  \A r \in WritesFailed :
    /\ wreqs[r].pc = "failed"
    /\ \/ DestContent = wreqs[r].dest0
       \/ \E q \in WritesDone \ wreqs[r].done0 : DestContent = Complete(wreqs[q].data)

(* The same while no two storage:write handlers have been in progress at once. *)
SingleWriterFailedWriteKeepsCommitted == overlapped \/ C22_FailedWriteKeepsCommitted

(* a failed storage:write never reports success *)
FailedWriteSignalsError == \A r \in WritesFailed : wreqs[r].pc = "failed"

(* ---------------------------------------------------------------------- *)
(* The browser storage backend                                            *)
(* ---------------------------------------------------------------------- *)

(* C23: with no privileged bridge every set call writes the new value to  *)
(* browser storage at once and arms no timer: after a set call whose      *)
(* setItem succeeded, and until the next one, the stored text for the key *)
(* is the serialized form of the in-memory value.                         *)
C23_BrowserPassThrough ==
  /\ timers = {}
  /\ debounceRef = 0
  /\ (bLast.op = "set" /\ bLast.ok) => bStore = JSONstringify(bValue)

(* three set calls, the last stored: an item with an undefined property *)
(* is in memory and its text in storage                                 *)
C23_Witness ==
  /\ bLast.op = "set"
  /\ bLast.ok
  /\ bCalls = 3
  /\ Len(bValue.todos) >= 2
  /\ bStore = JSONstringify(bValue)
  /\ JSONparse(bStore) # bValue

(* ---------------------- useIdleDetection ------------------------------ *)

(* the timeouts the hook is constructed with *)
IdleTimeouts == {2 * TickMs, 3 * TickMs}

(* clearTimeout(timerRef.current) when timerRef.current is set *)
Cleared(ts, ref) == {t \in ts : t.h # ref}

(* a resetTimer that does not clear the timeout it replaces *)
resetTimerNoClear(T) ==
  /\ isIdle' = FALSE
  /\ idleTimers' = idleTimers \cup {[h |-> timerRef + 1, deadline |-> now + T]}
  /\ timerRef' = timerRef + 1
  /\ lastActivity' = now

(* resetTimer: setIsIdle(false), the pending timeout cleared, a new one of *)
(* timeoutMs armed and kept in timerRef.current                            *)
resetTimer(T) ==
  /\ isIdle' = FALSE
  /\ idleTimers' = Cleared(idleTimers, timerRef) \cup {[h |-> timerRef + 1, deadline |-> now + T]}
  /\ timerRef' = timerRef + 1
  /\ lastActivity' = now

(* the effect: the five listeners registered on document, resetTimer() *)
IdleMount(T) ==
  /\ ~idleMounted
  /\ timerRef <= MaxCalls
  /\ idleMounted' = TRUE
  /\ timeoutMs' = T
  /\ resetTimer(T)
  /\ UNCHANGED idleSetAt
  /\ UNCHANGED <<storeVars, fileVars, startup, keyVars, browserVars>>

(* mousemove, mousedown, keydown, touchstart or scroll on document: resetTimer *)
Activity ==
  /\ idleMounted
  /\ timerRef <= MaxCalls
  /\ resetTimer(timeoutMs)
  /\ UNCHANGED <<timeoutMs, idleMounted, idleSetAt>>
  /\ UNCHANGED <<storeVars, fileVars, startup, keyVars, browserVars>>

(* the timeout expires: setIsIdle(true) *)
IdleFire(t) ==
  /\ now >= t.deadline
  /\ idleTimers' = idleTimers \ {t}
  /\ isIdle' = TRUE
  /\ idleSetAt' = now
  /\ UNCHANGED <<timerRef, timeoutMs, idleMounted, lastActivity>>
  /\ UNCHANGED <<storeVars, fileVars, startup, keyVars, browserVars>>

(* forceIdle: the pending timeout cleared, setIsIdle(true) *)
forceIdle ==
  /\ idleMounted
  /\ idleTimers' = Cleared(idleTimers, timerRef)
  /\ isIdle' = TRUE
  /\ UNCHANGED <<timerRef, timeoutMs, idleMounted, lastActivity, idleSetAt>>
  /\ UNCHANGED <<storeVars, fileVars, startup, keyVars, browserVars>>

(* wake: setIsIdle(false), resetTimer() *)
wake ==
  /\ idleMounted
  /\ timerRef <= MaxCalls
  /\ resetTimer(timeoutMs)
  /\ UNCHANGED <<timeoutMs, idleMounted, idleSetAt>>
  /\ UNCHANGED <<storeVars, fileVars, startup, keyVars, browserVars>>

(* the cleanup of the effect: the listeners removed, the pending timeout cleared *)
IdleCleanup ==
  /\ idleMounted
  /\ idleMounted' = FALSE
  /\ idleTimers' = Cleared(idleTimers, timerRef)
  /\ UNCHANGED <<isIdle, timerRef, timeoutMs, lastActivity, idleSetAt>>
  /\ UNCHANGED <<storeVars, fileVars, startup, keyVars, browserVars>>

(* the hook constructed, its effect not yet run *)
InitIdle == StoreIdle /\ FileIdle /\ KeysIdle /\ BrowserIdle /\ IdleOff

NextIdle ==
  \/ \E T \in IdleTimeouts : IdleMount(T)
  \/ Activity
  \/ \E t \in idleTimers : IdleFire(t)
  \/ forceIdle
  \/ wake
  \/ IdleCleanup
  \/ Tick

SpecIdle == InitIdle /\ [][NextIdle]_vars

(* ---------------- claims about the storage keys ------------------------ *)

(* the keys of the two documents of the application *)
MainKey == "academic-dashboard"
SettingsKey == "academic-dashboard-settings"
DocKeys == {MainKey, SettingsKey}

(* the keys whose file key is "settings" *)
SettingsKeys == {k \in Keys : storageKeyToFileKey(k) = "settings"}

(* no property of the document has the value undefined *)
NoUndefined(doc) ==
  \A c \in DOMAIN doc : \A i \in 1..Len(doc[c]) :
    \A f \in DOMAIN doc[c][i] : doc[c][i][f] # Undefined

(* C24: the main document and the settings document are independent: a   *)
(* step (set call, timer expiry with its physical write, load) of one of  *)
(* the two keys leaves the pending write of the other key armed with the  *)
(* same data and leaves the value a read of the other key returns as it   *)
(* was.                                                                   *)
C24_MainAndSettingsIndependent ==
  [][\A k \in DocKeys : \A j \in DocKeys \ {k} :
       kLast'.key = k => /\ kTimer'[j] = kTimer[j]
                         /\ ReadBack(j)' = ReadBack(j)]_vars

(* a write of the main document happened while a write of the settings    *)
(* document was pending, and the two files hold different documents       *)
C24_Witness ==
  /\ kLast = [op |-> "write", key |-> MainKey]
  /\ kTimer[SettingsKey] # NoTimer
  /\ ReadBack(SettingsKey) # Absent
  /\ ReadBack(MainKey) # ReadBack(SettingsKey)
  /\ kFiles[FileOf(SettingsKey)].by = SettingsKey

BrowserRoundTrip ==
  (bLast.op = "load" /\ bStore # Absent /\ bStore # CorruptText) =>
    JSONstringify(bValue) = bStore

(* C30 as stated: a write under one key never replaces the document read  *)
(* back under a different key.                                            *)
C30_DistinctKeysDistinctFiles ==
  [][\A k \in Keys : \A j \in Keys \ {k} :
       (kLast'.op = "write" /\ kLast'.key = k) => ReadBack(j)' = ReadBack(j)]_vars

(* C30 amended: there are two files; the keys whose file key is           *)
(* "settings" share settings.json and all other keys share data.json. A   *)
(* write under a key replaces the document read back under every key of   *)
(* the same file and leaves the document of every key of the other file.  *)
C30_KeysShareTwoFiles ==
  [][\A k \in Keys : \A j \in Keys \ {k} :
       (kLast'.op = "write" /\ kLast'.key = k) =>
         IF (j \in SettingsKeys) = (k \in SettingsKeys)
           THEN ReadBack(j)' = ReadBack(k)' /\ ReadBack(k)' # Absent
           ELSE ReadBack(j)' = ReadBack(j)]_vars

(* a write under the key "notes" replaced the document written under the  *)
(* main key, while the settings document stayed                           *)
C30_Witness ==
  /\ kLast = [op |-> "write", key |-> "notes"]
  /\ kWritten[MainKey] # Absent
  /\ NoUndefined(kWritten[MainKey])
  /\ ReadBack(MainKey) # kWritten[MainKey]
  /\ ReadBack(MainKey) = ReadBack("notes")
  /\ kWritten[SettingsKey] # Absent
  /\ ReadBack(SettingsKey) # ReadBack(MainKey)

(* ---------------- claims about the steps of storage:write -------------- *)

(* the order of the steps of one handler; any step may reject *)
StepOrder ==
  { <<"mkdir", "open">>, <<"open", "write">>, <<"write", "rename">>, <<"rename", "done">>,
    <<"mkdir", "failed">>, <<"open", "failed">>, <<"write", "failed">>,
    <<"rename", "failed">> }

(* a step of the handlers that were in progress keeps the order, and the *)
(* staging opens the temporary path, never data.json                     *)
StepsInOrder ==
  \A r \in 1..Len(wreqs) :
    \/ wreqs'[r].pc = wreqs[r].pc
    \/ /\ <<wreqs[r].pc, wreqs'[r].pc>> \in StepOrder
       /\ wreqs'[r].pc = "write" => wreqs'[r].fd = tmpIno' /\ destIno' = destIno

(* what data.json holds changes in no other step than a rename that succeeds *)
DestChangedByRenameOnly ==
  DestContent' # DestContent =>
    \E r \in 1..Len(wreqs) : wreqs[r].pc = "rename" /\ wreqs'[r].pc = "done"

(* C26: every storage:write goes through directory creation, staging at   *)
(* the temporary path and rename, in that order, and what the destination *)
(* path holds is changed by a rename only, never by a write to it.        *)
C26_StagedThenRenamed ==
  [][StepsInOrder /\ DestChangedByRenameOnly]_vars

(* The same while no two storage:write handlers have been in progress at once. *)
SingleWriterStagedThenRenamed ==
  [][overlapped' \/ (StepsInOrder /\ DestChangedByRenameOnly)]_vars

(* the steps are in order whatever the overlap *)
AlwaysStepsInOrder == [][StepsInOrder]_vars

(* no step was made to reject and the host did not crash: the only failure *)
(* left is a rename that finds its temporary file gone                     *)
NoFaults ==
  /\ crashes = 0
  /\ \A r \in 1..Len(wreqs) : wreqs[r].hit \in {"none", "ENOENT"}

(* C28: when two storage:write requests overlap, both complete with       *)
(* success, data.json is a complete document at every moment, and once    *)
(* both have finished it holds the document of the second request.        *)
C28_OverlappingWritesBothLand ==
  (Len(wreqs) = 2 /\ overlapped /\ NoFaults) =>
    /\ \A r \in 1..2 : wreqs[r].pc # "failed"
    /\ DestContent # Absent => DestContent.st = "complete"
    /\ Busy(wreqs) = {} => DestContent = Complete(wreqs[2].data)

(* Two requests one after the other do all of this. *)
SequentialWritesBothLand ==
  (Len(wreqs) = 2 /\ ~overlapped /\ NoFaults) =>
    /\ \A r \in 1..2 : wreqs[r].pc # "failed"
    /\ DestContent # Absent => DestContent.st = "complete"
    /\ Busy(wreqs) = {} => DestContent = Complete(wreqs[2].data)

(* ---------------- claims about idle detection -------------------------- *)

(* a step in which resetTimer ran *)
ResetRan == timerRef' # timerRef

(* a step in which a timeout ran its callback *)
TimerRan == idleSetAt' # idleSetAt

(* C27: while the listeners are registered and isIdle is false exactly one *)
(* timeout is pending, due timeoutMs after the latest activity; at most    *)
(* one timeout is pending at any time; every activity sets isIdle to false *)
(* and arms the full timeout; and a timeout sets isIdle to true no earlier *)
(* than timeoutMs after the latest activity.                               *)
C27_IdleAfterFullTimeout ==
  /\ [](Cardinality(idleTimers) <= 1)
  /\ []((idleMounted /\ ~isIdle) =>
         idleTimers = {[h |-> timerRef, deadline |-> lastActivity + timeoutMs]})
  /\ [][ResetRan => /\ ~isIdle'
                     /\ lastActivity' = now
                     /\ [h |-> timerRef', deadline |-> now + timeoutMs'] \in idleTimers']_vars
  /\ [][TimerRan => isIdle' /\ now >= lastActivity + timeoutMs]_vars

(* an activity replaced a pending timeout, and the timeout armed by it ran *)
(* later than the replaced one was due                                     *)
C27_Witness ==
  /\ isIdle
  /\ idleMounted
  /\ idleSetAt = now
  /\ lastActivity > 0
  /\ timerRef >= 2
  /\ idleSetAt >= lastActivity + timeoutMs
  /\ idleTimers = {}

(* ---------------- claims about the document found at startup ----------- *)

(* v was obtained by applying set calls to the document the load found: *)
(* the load has put a document in memory, and every set call applied to *)
(* v was made after that                                                *)
DerivedFromLoaded(v) ==
  /\ startup.loadedAt >= 0
  /\ \A i \in 1..Len(v.lin) : v.lin[i] > startup.loadedAt

(* C29: when a document exists at startup, every storage.write the store  *)
(* issues carries a value obtained by applying set calls to the document  *)
(* found at load, whenever the set calls are made and also when the load  *)
(* fails.                                                                 *)
C29_WritesDeriveFromLoaded ==
  startup.found => \A w \in 1..Len(issued) : DerivedFromLoaded(issued[w])

(* The writes produced by set calls made after a load that found a        *)
(* document carry that document with those set calls applied.             *)
SetCallsAfterLoadBuildOnLoaded ==
  \A w \in 1..Len(issued) :
    (startup.loadedAt >= 0 /\ Producer(issued[w]) > startup.loadedAt) =>
      issued[w].lin = loadResult.lin \o
                        [i \in 1..(Producer(issued[w]) - startup.loadedAt) |->
                           startup.loadedAt + i]

====
